---- MODULE Spec2Model ----
(***************************************************************************)
(* A model of jira_manager.py: one run of the command-line tool, from the  *)
(* parsing of the command line to the exit of the process.                 *)
(*                                                                         *)
(* Strings are sequences of symbols.  The symbols "=", ".", "-", "e", "3"  *)
(* and "5" are single characters; any other symbol ("PROJ", "summary")     *)
(* stands for a run of letters that holds none of those characters.        *)
(* Python's None is the one-symbol sequence NONE.                          *)
(***************************************************************************)
EXTENDS Integers, Sequences, FiniteSets, TLC

\* ------------------------------------------------------------------ bounds
MaxLen == 5        \* longest --set-field token, in symbols
MaxTokens == 1     \* most --set-field tokens on a modelled command line

\* ----------------------------------------------------------------- strings
NONE == <<"None">>
Str(x) == <<x>>
Falsy(s) == s = NONE \/ s = <<>>          \* Python's "not s" for Optional[str]

Digits == {"3", "5"}
Alphabet == {"=", ".", "-", "e"} \cup Digits

RECURSIVE StringsOfLen(_)
StringsOfLen(n) ==
    IF n = 0 THEN {<<>>}
    ELSE {Append(s, c) : s \in StringsOfLen(n - 1), c \in Alphabet}

Tokens == UNION {StringsOfLen(n) : n \in 0..MaxLen}

Contains(s, c) == \E i \in 1..Len(s) : s[i] = c

\* index of the first occurrence of c in s (0 when there is none)
IndexOf(s, c) ==
    IF Contains(s, c)
    THEN CHOOSE i \in 1..Len(s) : s[i] = c /\ \A j \in 1..(i - 1) : s[j] # c
    ELSE 0

\* kv.split('=', 1) when '=' in kv: the text before and after the first '='
Split1(kv) ==
    LET i == IndexOf(kv, "=")
    IN  [k |-> SubSeq(kv, 1, i - 1), v |-> SubSeq(kv, i + 1, Len(kv))]

\* ------------------------------------------------------- Python int, float
DigitVal(c) == IF c = "3" THEN 3 ELSE 5

\* the number a run of decimal digits denotes, read left to right
RECURSIVE DigitsVal(_, _)
DigitsVal(s, acc) ==
    IF s = <<>> THEN acc ELSE DigitsVal(Tail(s), 10 * acc + DigitVal(Head(s)))

\* the length of the run of digits s starts with
RECURSIVE DigitRun(_)
DigitRun(s) ==
    IF s # <<>> /\ Head(s) \in Digits THEN 1 + DigitRun(Tail(s)) ELSE 0

Drop(s, n) == SubSeq(s, n + 1, Len(s))
Take(s, n) == SubSeq(s, 1, n)

\* Python values held in extra_fields: an int, a float (mant * 10^exp, mant
\* not a multiple of 10) or a str
PyInt(n) == [kind |-> "int", mant |-> n, exp |-> 0, str |-> <<>>]
PyStr(s) == [kind |-> "str", mant |-> 0, exp |-> 0, str |-> s]

RECURSIVE PyFloat(_, _)
PyFloat(m, e) ==
    IF m = 0 THEN [kind |-> "float", mant |-> 0, exp |-> 0, str |-> <<>>]
    ELSE IF m % 10 = 0 THEN PyFloat(m \div 10, e + 1)
    ELSE [kind |-> "float", mant |-> m, exp |-> e, str |-> <<>>]

ValueError == [kind |-> "ValueError", mant |-> 0, exp |-> 0, str |-> <<>>]

\* int(v): an optional sign and one or more digits
int(v) ==
    LET neg == v # <<>> /\ Head(v) = "-"
        body == IF neg THEN Tail(v) ELSE v
    IN  IF body # <<>> /\ DigitRun(body) = Len(body)
        THEN PyInt((IF neg THEN -1 ELSE 1) * DigitsVal(body, 0))
        ELSE ValueError

\* float(v): [sign] (digits [. [digits]] | . digits) [e [sign] digits]
float(v) ==
    LET neg == v # <<>> /\ Head(v) = "-"
        s1 == IF neg THEN Tail(v) ELSE v
        ni == DigitRun(s1)
        s2 == Drop(s1, ni)
        dot == s2 # <<>> /\ Head(s2) = "."
        s3 == IF dot THEN Tail(s2) ELSE s2
        nf == IF dot THEN DigitRun(s3) ELSE 0
        s4 == Drop(s3, nf)
        hasE == s4 # <<>> /\ Head(s4) = "e"
        s5 == IF hasE THEN Tail(s4) ELSE s4
        eneg == hasE /\ s5 # <<>> /\ Head(s5) = "-"
        s6 == IF eneg THEN Tail(s5) ELSE s5
        ne == IF hasE THEN DigitRun(s6) ELSE 0
        s7 == Drop(s6, ne)
        mant == DigitsVal(Take(s1, ni) \o Take(s3, nf), 0)
        ex == IF hasE THEN (IF eneg THEN -1 ELSE 1) * DigitsVal(Take(s6, ne), 0)
              ELSE 0
    IN  IF ni + nf >= 1 /\ (hasE => ne >= 1) /\ s7 = <<>>
        THEN PyFloat((IF neg THEN -1 ELSE 1) * mant, ex - nf)
        ELSE ValueError

\* a variant: float(v) is tried whether or not v has a '.'
CoerceAlwaysFloat(v) ==
    LET r == float(v)
    IN  IF r = ValueError THEN PyStr(v) ELSE r

\* lines 296-302: float when v has a '.', int otherwise, v on ValueError
Coerce(v) ==
    LET r == IF Contains(v, ".") THEN float(v) ELSE int(v)
    IN  IF r = ValueError THEN PyStr(v) ELSE r

\* lines 294-303: the body of the loop over args.set_field
SetFieldBody(extra, kv) ==
    IF Contains(kv, "=")
    THEN LET kvs == Split1(kv)
             others == (DOMAIN extra) \ {kvs.k}
         IN  [x \in others \cup {kvs.k} |->
                 IF x = kvs.k THEN Coerce(kvs.v) ELSE extra[x]]
    ELSE extra


\* ------------------------------------------------------------ command line
Choices == {"story", "epic", "subtask", "edit", "delete"}          \* line 168
CreateVerbs == {"story", "epic", "subtask"}
PriorityChoices == {Str("High"), Str("Low")}                       \* line 196
NONE_LIST == <<NONE>>                       \* None where a list is expected

OptText(t) == {NONE, <<>>, Str(t)}
SampleTokens == {<<"e", "=", "3">>, <<"e">>}

RECURSIVE SeqsUpTo(_, _)
SeqsUpTo(S, n) ==
    IF n = 0 THEN {<<>>}
    ELSE SeqsUpTo(S, n - 1) \cup
         {Append(q, x) : q \in {r \in SeqsUpTo(S, n - 1) : Len(r) = n - 1}, x \in S}

\* a command line: NONE (NONE_LIST, <<>> for --set-field) where a flag or
\* the positional is not given
Argv(verb, help, pos, project, description, assignee, labels, priority, parent, epic_name, summary, oe, re, set_field) ==
    [verb |-> verb, help |-> help, pos |-> pos, project |-> project,
     description |-> description, assignee |-> assignee, labels |-> labels,
     priority |-> priority, parent |-> parent, epic_name |-> epic_name,
     summary |-> summary, original_estimate |-> oe,
     remaining_estimate |-> re, set_field |-> set_field]

CreateLines ==
    {Argv(verb, FALSE, pos, project, description, assignee, labels, priority,
          parent, epic_name, NONE, NONE, NONE, <<>>) :
        verb \in CreateVerbs, pos \in OptText("Title"),
        project \in OptText("PROJ"), description \in {NONE, Str("text")},
        assignee \in OptText("ann"), labels \in {NONE_LIST, <<Str("l1")>>},
        priority \in {NONE, Str("High"), Str("Bogus")},
        parent \in OptText("PROJ-9"), epic_name \in {NONE, Str("Name")}}

EditLines ==
    {Argv("edit", FALSE, pos, NONE, description, assignee, labels, priority,
          NONE, NONE, summary, oe, re, set_field) :
        pos \in OptText("PROJ-1"), description \in {NONE, Str("text")},
        assignee \in OptText("ann"), labels \in {NONE_LIST, <<Str("l1")>>},
        priority \in {NONE, Str("High"), Str("Bogus")},
        summary \in {NONE, Str("Title")}, oe \in {NONE, Str("3h")},
        re \in {NONE, Str("2h")}, set_field \in SeqsUpTo(SampleTokens, MaxTokens)}

OtherLines ==
    {Argv(verb, FALSE, pos, NONE, NONE, NONE, NONE_LIST, priority,
          NONE, NONE, NONE, NONE, NONE, <<>>) :
        verb \in {"delete", "bogus", "missing"}, pos \in OptText("PROJ-1"),
        priority \in {NONE, Str("High"), Str("Bogus")}}
    \cup {Argv("missing", TRUE, NONE, NONE, NONE, NONE, NONE_LIST, NONE,
               NONE, NONE, NONE, NONE, NONE, <<>>)}

\* flags a create verb's branch never reads are left out of its lines
CommandLines ==
    {l \in CreateLines :
        /\ l.verb # "subtask" => l.parent = NONE
        /\ l.verb # "epic" => l.epic_name = NONE}
    \cup EditLines
    \cup {l \in OtherLines : l.verb = "missing" => l.pos = NONE}

EnvValues == OptText("value")
RemoteKeys == {Str("PROJ-1"), Str("PROJ-2")}
IssueTypeLists == {<<>>, <<Str("Story")>>, <<Str("Story"), Str("Epic")>>}
Raises == {"JIRAError", "Exception"}    \* a JIRAError, or any other Exception

\* ------------------------------------------------------------------- state
VARIABLES
    pc,            \* where main is
    argv,          \* sys.argv
    args,          \* the parsed namespace (line 226)
    env,           \* jira_server, jira_email, jira_token (lines 228-230)
    calls,         \* the calls made on the remote client, in order
    epic_field,    \* create_epic's epic_field (line 63)
    extra_fields,  \* main's extra_fields (line 292)
    idx,           \* position of the loop of line 293 in args.set_field
    issue,         \* the key of the issue fetched by jira.issue
    output,        \* what was printed, in order
    exit_code      \* the exit status (-1 while running)

vars == <<pc, argv, args, env, calls, epic_field, extra_fields, idx, issue,
          output, exit_code>>

EmptyMap == [x \in {} |-> x]
Opt(cond, k, v) == IF cond THEN k :> v ELSE EmptyMap

\* the namespace parse_args returns for an accepted command line: the
\* defaults are None, '' for --description and [] for --set-field
Namespace(l) ==
    [type |-> l.verb, issue_key_or_summary |-> l.pos, project |-> l.project,
     description |-> IF l.description = NONE THEN <<>> ELSE l.description,
     assignee |-> l.assignee, labels |-> l.labels, priority |-> l.priority,
     parent |-> l.parent, epic_name |-> l.epic_name, summary |-> l.summary,
     original_estimate |-> l.original_estimate,
     remaining_estimate |-> l.remaining_estimate, set_field |-> l.set_field]

NoArgs == [Namespace(Argv("none", FALSE, NONE, NONE, NONE, NONE, NONE_LIST,
                          NONE, NONE, NONE, NONE, NONE, NONE, <<>>))
              EXCEPT !.description = NONE]
NoEnv == [server |-> NONE, email |-> NONE, token |-> NONE]

Call(op, arg, outcome, ret) ==
    [op |-> op, arg |-> arg, outcome |-> outcome, ret |-> ret]
Line(kind, text) == [kind |-> kind, text |-> text]

Init ==
    /\ pc = "parse"
    /\ argv \in CommandLines
    /\ args = NoArgs
    /\ env = NoEnv
    /\ calls = <<>>
    /\ epic_field = NONE
    /\ extra_fields = EmptyMap
    /\ idx = 1
    /\ issue = NONE
    /\ output = <<>>
    /\ exit_code = -1

\* sys.exit(code) after printing a line
Exit(kind, text, code) ==
    /\ output' = Append(output, Line(kind, text))
    /\ exit_code' = code
    /\ pc' = "exited"

\* an exception leaves the try block of main (lines 239-328): a JIRAError is
\* printed and the process exits 1; any other exception is not caught, the
\* interpreter prints a traceback and exits 1
Raise(exc) ==
    IF exc = "JIRAError" THEN Exit("error", NONE, 1)
    ELSE Exit("traceback", NONE, 1)


\* ------------------------------------------------------------------ main()
\* lines 162-226: argparse prints the help and exits 0 on -h, rejects a
\* missing or unknown verb and an unknown --priority with exit status 2, and
\* fills in the defaults ('' for --description, [] for --set-field)
parse_args ==
    /\ pc = "parse"
    /\ IF argv.help
       THEN Exit("help", NONE, 0) /\ UNCHANGED args
       ELSE IF \/ argv.verb \notin Choices
               \/ (argv.priority # NONE /\ argv.priority \notin PriorityChoices)
       THEN Exit("argparse_error", NONE, 2) /\ UNCHANGED args
       ELSE /\ args' = Namespace(argv)
            /\ pc' = "env"
            /\ UNCHANGED <<output, exit_code>>
    /\ UNCHANGED <<argv, env, calls, epic_field, extra_fields, idx, issue>>

\* a variant: the run stops only when all three variables are missing
check_env_any ==
    /\ pc = "env"
    /\ \E server \in EnvValues, email \in EnvValues, token \in EnvValues :
        /\ env' = [server |-> server, email |-> email, token |-> token]
        /\ IF Falsy(server) /\ Falsy(email) /\ Falsy(token)
           THEN Exit("config", NONE, 1)
           ELSE pc' = "connect" /\ UNCHANGED <<output, exit_code>>
    /\ UNCHANGED <<argv, args, calls, epic_field, extra_fields, idx, issue>>

\* lines 228-237
check_env ==
    /\ pc = "env"
    /\ \E server \in EnvValues, email \in EnvValues, token \in EnvValues :
        /\ env' = [server |-> server, email |-> email, token |-> token]
        /\ IF Falsy(server) \/ Falsy(email) \/ Falsy(token)
           THEN Exit("config", NONE, 1)
           ELSE pc' = "connect" /\ UNCHANGED <<output, exit_code>>
    /\ UNCHANGED <<argv, args, calls, epic_field, extra_fields, idx, issue>>

\* lines 240 and 21-26: the client is built, which contacts the server
JiraManager_init ==
    /\ pc = "connect"
    /\ \/ /\ calls' = Append(calls, Call("JIRA", env.server, "ok", NONE))
          /\ pc' = "dispatch"
          /\ UNCHANGED <<output, exit_code>>
       \/ \E exc \in Raises :
          /\ calls' = Append(calls, Call("JIRA", env.server, exc, NONE))
          /\ Raise(exc)
    /\ UNCHANGED <<argv, args, env, epic_field, extra_fields, idx, issue>>

\* the required arguments of each verb (lines 243, 258, 271-274, 288, 319)
MissingRequired(a) ==
    \/ a.type \in CreateVerbs /\ (Falsy(a.project) \/ Falsy(a.issue_key_or_summary))
    \/ a.type = "subtask" /\ Falsy(a.parent)
    \/ a.type \in {"edit", "delete"} /\ Falsy(a.issue_key_or_summary)


UsageText(a) ==
    IF a.type \in CreateVerbs /\ (Falsy(a.project) \/ Falsy(a.issue_key_or_summary))
    THEN Str("--project and summary are required")
    ELSE IF a.type = "subtask" THEN Str("--parent is required for subtasks")
    ELSE Str("Issue key is required")

\* a variant: a missing required argument ends the run with status 0
validate_exit_zero ==
    /\ pc = "dispatch"
    /\ IF MissingRequired(args)
       THEN Exit("usage", UsageText(args), 0) /\ UNCHANGED <<extra_fields, idx>>
       ELSE /\ pc' = CASE args.type = "epic" -> "issue_types"
                       [] args.type \in {"story", "subtask"} -> "create_issue"
                       [] args.type = "edit" /\ args.set_field # <<>> -> "set_field"
                       [] OTHER -> "issue"
            /\ extra_fields' = EmptyMap
            /\ idx' = 1
            /\ UNCHANGED <<output, exit_code>>
    /\ UNCHANGED <<argv, args, env, calls, epic_field, issue>>

\* lines 242-245, 257-260, 270-276, 287-292, 318-321: the branch on args.type
\* checks the verb's required arguments and exits 1 when one is missing
validate ==
    /\ pc = "dispatch"
    /\ IF MissingRequired(args)
       THEN Exit("usage", UsageText(args), 1) /\ UNCHANGED <<extra_fields, idx>>
       ELSE /\ pc' = CASE args.type = "epic" -> "issue_types"
                       [] args.type \in {"story", "subtask"} -> "create_issue"
                       [] args.type = "edit" /\ args.set_field # <<>> -> "set_field"
                       [] OTHER -> "issue"
            /\ extra_fields' = EmptyMap
            /\ idx' = 1
            /\ UNCHANGED <<output, exit_code>>
    /\ UNCHANGED <<argv, args, env, calls, epic_field, issue>>

\* lines 293-303: one turn of the loop over args.set_field
set_field_loop ==
    /\ pc = "set_field"
    /\ idx <= Len(args.set_field)
    /\ extra_fields' = SetFieldBody(extra_fields, args.set_field[idx])
    /\ idx' = idx + 1
    /\ pc' = IF idx + 1 > Len(args.set_field) THEN "issue" ELSE "set_field"
    /\ UNCHANGED <<argv, args, env, calls, epic_field, issue, output, exit_code>>

\* ------------------------------------------------------------- JiraManager
IssueTypeField(name) == [name |-> Str(name)]

\* a variant: the assignee is tested with 'is not None'
create_story_fields_not_none(a) ==
    (Str("project") :> [key |-> a.project])
    @@ (Str("summary") :> a.issue_key_or_summary)
    @@ (Str("description") :> a.description)
    @@ (Str("issuetype") :> IssueTypeField("Story"))
    @@ Opt(a.assignee # NONE, Str("assignee"), [name |-> a.assignee])
    @@ Opt(a.labels # NONE_LIST /\ a.labels # <<>>, Str("labels"), a.labels)
    @@ Opt(~Falsy(a.priority), Str("priority"), [name |-> a.priority])

\* lines 38-50
create_story_fields(a) ==
    (Str("project") :> [key |-> a.project])
    @@ (Str("summary") :> a.issue_key_or_summary)
    @@ (Str("description") :> a.description)
    @@ (Str("issuetype") :> IssueTypeField("Story"))
    @@ Opt(~Falsy(a.assignee), Str("assignee"), [name |-> a.assignee])
    @@ Opt(a.labels # NONE_LIST /\ a.labels # <<>>, Str("labels"), a.labels)
    @@ Opt(~Falsy(a.priority), Str("priority"), [name |-> a.priority])

\* lines 65-73: epic_name or summary goes under the field found by the lookup
create_epic_fields(a, field) ==
    (Str("project") :> [key |-> a.project])
    @@ (Str("summary") :> a.issue_key_or_summary)
    @@ (Str("description") :> a.description)
    @@ (Str("issuetype") :> IssueTypeField("Epic"))
    @@ Opt(~Falsy(field), field,
           IF Falsy(a.epic_name) THEN a.issue_key_or_summary ELSE a.epic_name)

\* lines 87-96
create_subtask_fields(a) ==
    (Str("project") :> [key |-> a.project])
    @@ (Str("summary") :> a.issue_key_or_summary)
    @@ (Str("description") :> a.description)
    @@ (Str("issuetype") :> IssueTypeField("Sub-task"))
    @@ (Str("parent") :> [key |-> a.parent])
    @@ Opt(~Falsy(a.assignee), Str("assignee"), [name |-> a.assignee])

\* lines 128-134
timetracking(a) ==
    Opt(a.original_estimate # NONE, Str("originalEstimate"), a.original_estimate)
    @@ Opt(a.remaining_estimate # NONE, Str("remainingEstimate"), a.remaining_estimate)

\* lines 115-137: fields.update(extra_fields) lets the extra fields win
edit_issue_fields(a, extra) ==
    extra
    @@ Opt(a.summary # NONE, Str("summary"), a.summary)
    @@ Opt(a.description # NONE, Str("description"), a.description)
    @@ Opt(a.assignee # NONE, Str("assignee"), [name |-> a.assignee])
    @@ Opt(a.labels # NONE_LIST, Str("labels"), a.labels)
    @@ Opt(a.priority # NONE, Str("priority"), [name |-> a.priority])
    @@ Opt(a.original_estimate # NONE \/ a.remaining_estimate # NONE,
           Str("timetracking"), timetracking(a))


\* a call on the remote client returns or raises
Returns(op, arg, ret) == calls' = Append(calls, Call(op, arg, "ok", ret))
Raised(op, arg, exc) == calls' = Append(calls, Call(op, arg, exc, NONE))

HasEpic(types) == \E i \in 1..Len(types) : types[i] = Str("Epic")

\* a variant: an exception of the listing leaves create_epic
get_epic_name_field_raising ==
    /\ pc = "issue_types"
    /\ args.type = "epic"
    /\ \/ \E types \in IssueTypeLists :
            /\ Returns("issue_types", NONE, types)
            /\ epic_field' = IF HasEpic(types) THEN Str("customfield_10011") ELSE NONE
            /\ pc' = "create_issue"
            /\ UNCHANGED <<output, exit_code>>
       \/ \E exc \in Raises :
            /\ Raised("issue_types", NONE, exc)
            /\ Raise(exc)
            /\ UNCHANGED epic_field
    /\ UNCHANGED <<argv, args, env, extra_fields, idx, issue>>

\* lines 63 and 149-158: the issue types are listed; 'customfield_10011'
\* when one is named Epic, None when none is or when the listing raises
get_epic_name_field ==
    /\ pc = "issue_types"
    /\ args.type = "epic"
    /\ \/ \E types \in IssueTypeLists :
            /\ Returns("issue_types", NONE, types)
            /\ epic_field' = IF HasEpic(types) THEN Str("customfield_10011") ELSE NONE
       \/ \E exc \in Raises :
            /\ Raised("issue_types", NONE, exc)
            /\ epic_field' = NONE
    /\ pc' = "create_issue"
    /\ UNCHANGED <<argv, args, env, extra_fields, idx, issue, output, exit_code>>

\* jira.create_issue(fields=fields), then the print of the returned key
CreateIssue(fields, kind) ==
    /\ \/ \E key \in RemoteKeys :
            Returns("create_issue", fields, key) /\ Exit(kind, key, 0)
       \/ \E exc \in Raises :
            Raised("create_issue", fields, exc) /\ Raise(exc)
    /\ UNCHANGED <<argv, args, env, epic_field, extra_fields, idx, issue>>

\* lines 28-53 and 247-255
create_story ==
    /\ pc = "create_issue"
    /\ args.type = "story"
    /\ CreateIssue(create_story_fields(args), "Story created")

\* lines 65-76 and 262-268
create_epic ==
    /\ pc = "create_issue"
    /\ args.type = "epic"
    /\ CreateIssue(create_epic_fields(args, epic_field), "Epic created")

\* lines 78-99 and 278-285
create_subtask ==
    /\ pc = "create_issue"
    /\ args.type = "subtask"
    /\ CreateIssue(create_subtask_fields(args), "Subtask created")

\* a variant: the run goes on after a fetch that raised
jira_issue_unchecked ==
    /\ pc = "issue"
    /\ \/ \E key \in RemoteKeys :
            /\ Returns("issue", args.issue_key_or_summary, key)
            /\ issue' = key
       \/ \E exc \in Raises :
            /\ Raised("issue", args.issue_key_or_summary, exc)
            /\ UNCHANGED issue
    /\ pc' = IF args.type = "edit" THEN "update" ELSE "delete"
    /\ UNCHANGED <<output, exit_code>>
    /\ UNCHANGED <<argv, args, env, epic_field, extra_fields, idx>>

\* lines 114 and 146: issue = self.jira.issue(issue_key)
jira_issue ==
    /\ pc = "issue"
    /\ \/ \E key \in RemoteKeys :
            /\ Returns("issue", args.issue_key_or_summary, key)
            /\ issue' = key
            /\ pc' = IF args.type = "edit" THEN "update" ELSE "delete"
            /\ UNCHANGED <<output, exit_code>>
       \/ \E exc \in Raises :
            /\ Raised("issue", args.issue_key_or_summary, exc)
            /\ Raise(exc)
            /\ UNCHANGED issue
    /\ UNCHANGED <<argv, args, env, epic_field, extra_fields, idx>>

\* a variant: an update that raised is sent again
edit_issue_retry ==
    /\ pc = "update"
    /\ LET fields == edit_issue_fields(args, extra_fields)
       IN  IF DOMAIN fields # {}
           THEN \/ Returns("update", fields, NONE) /\ Exit("Issue updated", issue, 0)
                \/ \E exc \in Raises :
                     /\ Raised("update", fields, exc)
                     /\ UNCHANGED <<pc, output, exit_code>>
           ELSE Exit("Issue updated", issue, 0) /\ UNCHANGED calls
    /\ UNCHANGED <<argv, args, env, epic_field, extra_fields, idx, issue>>

\* lines 115-142 and 316: issue.update(fields=fields) when fields is not
\* empty, then the print of issue.key
edit_issue ==
    /\ pc = "update"
    /\ LET fields == edit_issue_fields(args, extra_fields)
       IN  IF DOMAIN fields # {}
           THEN \/ Returns("update", fields, NONE) /\ Exit("Issue updated", issue, 0)
                \/ \E exc \in Raises : Raised("update", fields, exc) /\ Raise(exc)
           ELSE Exit("Issue updated", issue, 0) /\ UNCHANGED calls
    /\ UNCHANGED <<argv, args, env, epic_field, extra_fields, idx, issue>>

\* lines 147 and 324: issue.delete(), then the print of the key given
delete_issue ==
    /\ pc = "delete"
    /\ \/ /\ Returns("delete", issue, NONE)
          /\ Exit("Issue deleted", args.issue_key_or_summary, 0)
       \/ \E exc \in Raises : Raised("delete", issue, exc) /\ Raise(exc)
    /\ UNCHANGED <<argv, args, env, epic_field, extra_fields, idx, issue>>

Next ==
    \/ parse_args
    \/ check_env
    \/ JiraManager_init
    \/ validate
    \/ set_field_loop
    \/ get_epic_name_field
    \/ create_story
    \/ create_epic
    \/ create_subtask
    \/ jira_issue
    \/ edit_issue
    \/ delete_issue

Spec == Init /\ [][Next]_vars


\* ------------------------------------------- the --set-field loop, alone
\* The run has reached the loop of line 293 of an edit whose --set-field
\* tokens are any token of the alphabet, alone or after the token e=3.
CoerceSeeds == {<<>>, << <<"e", "=", "3">> >>}

InitCoerce ==
    /\ pc = "set_field"
    /\ \E seed \in CoerceSeeds, t \in Tokens :
         argv = Argv("edit", FALSE, Str("PROJ-1"), NONE, NONE, NONE, NONE_LIST,
                     NONE, NONE, NONE, NONE, NONE, NONE, Append(seed, t))
    /\ args = Namespace(argv)
    /\ env = [server |-> Str("value"), email |-> Str("value"), token |-> Str("value")]
    /\ calls = <<Call("JIRA", Str("value"), "ok", NONE)>>
    /\ epic_field = NONE
    /\ extra_fields = EmptyMap
    /\ idx = 1
    /\ issue = NONE
    /\ output = <<>>
    /\ exit_code = -1

NextCoerce == set_field_loop

SpecCoerce == InitCoerce /\ [][NextCoerce]_vars


\* ================================================================== claims
Exited == pc = "exited"
Parsed == args.type \in Choices
LastLine == output[Len(output)]
SuccessKinds == {"Story created", "Epic created", "Subtask created",
                 "Issue updated", "Issue deleted"}
Mutating == {"create_issue", "update", "delete"}
CallsOf(ops) == {i \in 1..Len(calls) : calls[i].op \in ops}

\* ---- what the specification says of a --set-field value, stated on the
\* text of the value
IsDigits(s, from, to) == \A i \in from..to : s[i] \in Digits

RECURSIVE NatOf(_)
NatOf(s) ==
    IF s = <<>> THEN 0
    ELSE 10 * NatOf(SubSeq(s, 1, Len(s) - 1)) + DigitVal(s[Len(s)])

IsIntegerLiteral(v) ==
    \/ Len(v) >= 1 /\ IsDigits(v, 1, Len(v))
    \/ Len(v) >= 2 /\ v[1] = "-" /\ IsDigits(v, 2, Len(v))

IntegerOf(v) ==
    IF v[1] = "-" THEN 0 - NatOf(Tail(v)) ELSE NatOf(v)

\* the ways to read v as sign, digits, point, digits, e, sign, digits
Readings(v) ==
    LET n == Len(v)
    IN  {r \in [sg : 0..1, ni : 0..n, dt : 0..1, nf : 0..n, he : 0..1, es : 0..1] :
           LET ne == n - (r.sg + r.ni + r.dt + r.nf + r.he + r.es)
               p1 == r.sg
               p2 == p1 + r.ni
               p3 == p2 + r.dt
               p4 == p3 + r.nf
               p5 == p4 + r.he
               p6 == p5 + r.es
           IN  /\ ne >= 0
               /\ r.sg = 1 => v[1] = "-"
               /\ IsDigits(v, p1 + 1, p2)
               /\ r.dt = 1 => v[p3] = "."
               /\ r.dt = 0 => r.nf = 0
               /\ IsDigits(v, p3 + 1, p4)
               /\ r.ni + r.nf >= 1
               /\ r.he = 1 => v[p5] = "e" /\ ne >= 1
               /\ r.he = 0 => r.es = 0 /\ ne = 0
               /\ r.es = 1 => v[p6] = "-"
               /\ IsDigits(v, p6 + 1, n)}

IsNumeric(v) == Readings(v) # {}

\* the value is x: a float when v has a point and is numeric, else an
\* integer when v is an integer literal, else v itself
ValueAsSpecified(v, x) ==
    IF Contains(v, ".") /\ IsNumeric(v)
    THEN LET r == CHOOSE q \in Readings(v) : TRUE
             n == Len(v)
             digits == SubSeq(v, r.sg + 1, r.sg + r.ni)
                       \o SubSeq(v, r.sg + r.ni + 2, r.sg + r.ni + 1 + r.nf)
             e == IF r.he = 1
                  THEN (IF r.es = 1 THEN -1 ELSE 1)
                       * NatOf(SubSeq(v, r.sg + r.ni + 1 + r.nf + 1 + r.es + 1, n))
                  ELSE 0
         IN  /\ x.kind = "float"
             /\ x.mant = (IF r.sg = 1 THEN -1 ELSE 1) * NatOf(digits)
             /\ x.exp = e - r.nf
    ELSE IF IsIntegerLiteral(v)
    THEN x.kind = "int" /\ x.mant = IntegerOf(v)
    ELSE x.kind = "str" /\ x.str = v

\* the tokens the loop has been through
Done == 1..(idx - 1)

\* C8: every key=value token the loop has been through, split at its first
\* '=', has its value under its key in extra_fields (the last token of a key
\* wins), as a float when the value has a point and is numeric, else as an
\* integer when it is an integer literal, else as the string itself; tokens
\* without '=' add nothing, and the loop never ends the run.
C8_SetFieldCoercion ==
    pc \in {"set_field", "issue"} =>
      /\ exit_code = -1 /\ output = <<>>
      /\ \A i \in Done :
           LET kv == args.set_field[i]
           IN  Contains(kv, "=") =>
                 \E n \in 0..(Len(kv) - 1) :
                   LET k == SubSeq(kv, 1, n)
                       v == SubSeq(kv, n + 2, Len(kv))
                   IN  /\ kv = k \o <<"=">> \o v
                       /\ ~Contains(k, "=")
                       /\ k \in DOMAIN extra_fields
                       /\ (\A j \in Done : j > i =>
                             LET kj == args.set_field[j]
                             IN  ~(Len(kj) > n /\ SubSeq(kj, 1, n + 1) = k \o <<"=">>))
                          => ValueAsSpecified(v, extra_fields[k])
      /\ \A k \in DOMAIN extra_fields :
           \E i \in Done : LET kv == args.set_field[i]
                           IN  Len(kv) > Len(k) /\ SubSeq(kv, 1, Len(k) + 1) = k \o <<"=">>

E35 == <<"e", "=", "3", ".", "5">>

\* a run that has coerced e=3 to the integer 3 and then e=3.5 to the float 3.5
C8_Witness ==
    /\ pc = "issue"
    /\ args.set_field = << <<"e", "=", "3">>, E35 >>
    /\ extra_fields[Str("e")] = PyFloat(35, -1)

\* C1: a run whose verb lacks a required argument ends with exit status 1
\* and has made no call on the remote client, the construction of the
\* client included.
C1_UsageErrorBeforeAnyRemoteCall ==
    (Exited /\ Parsed /\ MissingRequired(args)) =>
        exit_code = 1 /\ calls = <<>>

NoFieldsGiven(l) ==
    /\ l.summary = NONE /\ l.description = NONE /\ l.assignee = NONE
    /\ l.labels = NONE_LIST /\ l.priority = NONE
    /\ l.original_estimate = NONE /\ l.remaining_estimate = NONE
    /\ l.set_field = <<>>

\* C2: an edit whose command line gives no field makes no update call.
C2_EditWithoutFieldsSendsNoUpdate ==
    (argv.verb = "edit" /\ NoFieldsGiven(argv)) => CallsOf({"update"}) = {}

\* C3 as stated: a run makes at most one call on the remote client.
C3_AtMostOneNetworkCall == Len(calls) <= 1

\* C3 amended: a run makes at most one mutating call (create, update or
\* delete), which is its last call; before it come the construction of the
\* client and, for epic, edit and delete, one read (the listing of the issue
\* types or the fetch of the issue), so at most three calls, none repeated.
C3_AtMostOneMutatingCall ==
    /\ Cardinality(CallsOf(Mutating)) <= 1
    /\ \A i \in CallsOf(Mutating) : i = Len(calls) /\ Exited
    /\ Len(calls) <= 3
    /\ \A i, j \in 1..Len(calls) : calls[i].op = calls[j].op => i = j
    /\ calls # <<>> => calls[1].op = "JIRA"

C3_Witness ==
    /\ Exited /\ exit_code = 0
    /\ Len(calls) = 3
    /\ calls[2].op = "issue" /\ calls[3].op = "update"

\* C4: an exception raised by the construction of the client or by a create,
\* fetch, update or delete call is caught by main, which prints its error
\* line and exits 1.
C4_RemoteExceptionsCaught ==
    \A i \in CallsOf({"JIRA", "create_issue", "issue", "update", "delete"}) :
        calls[i].outcome # "ok" =>
            Exited /\ exit_code = 1 /\ LastLine.kind = "error"

OperationSucceeded == Exited /\ LastLine.kind \in SuccessKinds
UsageError == Exited /\ LastLine.kind \in {"argparse_error", "usage", "config"}
RemoteError == Exited /\ LastLine.kind \in {"error", "traceback"}

\* C5 as stated: a run ends with 0 when its operation succeeded, with 1 on a
\* usage error or a remote error, and with no other exit code.
C5_ExitCodeZeroOrOne ==
    Exited =>
        /\ exit_code \in {0, 1}
        /\ OperationSucceeded => exit_code = 0
        /\ (UsageError \/ RemoteError) => exit_code = 1

ParserRejects(l) ==
    \/ l.verb \notin Choices
    \/ l.priority \notin PriorityChoices \cup {NONE}

\* C5 amended: a run ends with 0 exactly when help was asked for or its
\* mutating call returned, with 2 exactly when the parser rejects the command
\* line, with 1 otherwise (a credential or a required argument missing, a
\* remote call that raised), and with no other exit code.
C5_ExitCodes ==
    Exited =>
        /\ exit_code \in {0, 1, 2}
        /\ exit_code = 0 <=>
             \/ argv.help
             \/ \E i \in CallsOf(Mutating) : calls[i].outcome = "ok"
        /\ exit_code = 2 <=> (~argv.help /\ ParserRejects(argv))
        /\ OperationSucceeded <=> (exit_code = 0 /\ ~argv.help)

C5_Witness ==
    /\ Exited /\ exit_code = 1
    /\ LastLine.kind = "usage"
    /\ args.type = "subtask" /\ args.parent = NONE

CredentialMissing == Falsy(env.server) \/ Falsy(env.email) \/ Falsy(env.token)

\* C6: once the command line is parsed and the three variables are read, a
\* run with one of them unset or empty has printed the configuration message
\* and nothing else, has exited with 1 and has made no call on the remote
\* client, whatever the verb and whether or not its arguments are complete.
C6_MissingCredentialExitsFirst ==
    (Parsed /\ pc # "env" /\ CredentialMissing) =>
        /\ Exited /\ exit_code = 1
        /\ output = <<Line("config", NONE)>>
        /\ calls = <<>>

C6_Witness ==
    /\ Exited /\ output = <<Line("config", NONE)>>
    /\ env = [server |-> Str("value"), email |-> <<>>, token |-> Str("value")]
    /\ args.type = "delete" /\ MissingRequired(args)

EpicNameField == Str("customfield_10011")
EpicTypeFound(c) == c.outcome = "ok" /\ HasEpic(c.ret)

\* C7: the listing of the issue types never ends an epic creation: whether
\* it raises, returns no type named Epic or returns one, the run goes on to
\* the create call; the field map of that call holds the epic-name field
\* exactly when a type named Epic was found, and a create call that returns
\* makes the run print the returned key and exit 0.
C7_EpicLookupNeverFails ==
    \A i \in CallsOf({"issue_types"}) :
        /\ args.type = "epic"
        /\ i = Len(calls) =>
             /\ pc = "create_issue" /\ exit_code = -1 /\ output = <<>>
             /\ epic_field = IF EpicTypeFound(calls[i]) THEN EpicNameField ELSE NONE
        /\ i < Len(calls) =>
             /\ calls[i + 1].op = "create_issue"
             /\ EpicNameField \in DOMAIN calls[i + 1].arg <=> EpicTypeFound(calls[i])
             /\ calls[i + 1].outcome = "ok" =>
                  /\ exit_code = 0
                  /\ LastLine = Line("Epic created", calls[i + 1].ret)

C7_Witness ==
    /\ Exited /\ exit_code = 0
    /\ Len(calls) = 3
    /\ calls[2].op = "issue_types" /\ calls[2].outcome = "Exception"
    /\ DOMAIN calls[3].arg =
         {Str("project"), Str("summary"), Str("description"), Str("issuetype")}

\* ---- the field map the specification gives a create operation
TypeName(verb) ==
    CASE verb = "story" -> Str("Story")
      [] verb = "epic" -> Str("Epic")
      [] verb = "subtask" -> Str("Sub-task")

\* the optional parameters of each create operation
Accepts(verb) ==
    CASE verb = "story" -> {"assignee", "labels", "priority"}
      [] verb = "epic" -> {}
      [] verb = "subtask" -> {"assignee"}

Supplied(a, o) ==
    CASE o = "assignee" -> a.assignee \notin {NONE, <<>>}
      [] o = "labels" -> a.labels # NONE_LIST
      [] o = "priority" -> a.priority \notin {NONE, <<>>}

SuccessKind(verb) ==
    CASE verb = "story" -> "Story created"
      [] verb = "epic" -> "Epic created"
      [] verb = "subtask" -> "Subtask created"

C10_FetchBeforeMutation ==
    /\ \A i \in CallsOf({"update", "delete"}) :
         /\ i > 1
         /\ calls[i - 1].op = "issue" /\ calls[i - 1].outcome = "ok"
         /\ calls[i - 1].arg = args.issue_key_or_summary
    /\ \A i \in CallsOf({"issue"}) :
         calls[i].outcome # "ok" =>
            /\ i = Len(calls)
            /\ Exited /\ exit_code = 1
            /\ \A n \in 1..Len(output) : output[n].kind \notin SuccessKinds

C10_Witness ==
    /\ Exited /\ exit_code = 1
    /\ args.type = "delete"
    /\ Len(calls) = 2 /\ calls[2].op = "issue" /\ calls[2].outcome = "JIRAError"
    /\ LastLine.kind = "error"

====
